---- MODULE Spec2Model ----
(***************************************************************************)
(* Model of packages/loader/src-tauri/src/commands.rs: the three loader    *)
(* commands fetch_games, download_game and get_games_dir.                  *)
(*                                                                         *)
(* The commands are free functions.  Their callers (the front-end that     *)
(* invokes them) are modelled as a small set of threads, each of which     *)
(* enters a command (Invoke), runs its body (one step per function, since  *)
(* each body is a single return expression), and takes the returned value  *)
(* (Return).  The state the functions could touch but do not (the file     *)
(* system and the network) is carried in `world`, and `log` is the history *)
(* of the calls executed so far, in execution order.                       *)
(***************************************************************************)
EXTENDS Naturals, Sequences, FiniteSets

\* Bounds of the model.
NumCallers == 2
MaxCalls == 3

Callers == 1..NumCallers

\* The input strings tried for download_game's parameter: the empty string,
\* a well-formed date and a string that is no date.
Args == {"", "2024-01-15", "not-a-date"}

\* Placeholder for the parameter of a function that takes none.
NoArg == "<no-arg>"
\* Placeholder for the result slot of a caller that holds no value.
NoValue == [tag |-> "None", val |-> ""]

Fns == {"fetch_games", "download_game", "get_games_dir"}

ArgsOf(f) == IF f = "download_game" THEN Args ELSE {NoArg}

\* Rust values: an owned String, and the two variants of Result<String, String>.
Str(s) == [tag |-> "String", val |-> s]
Ok(v) == [tag |-> "Ok", val |-> v]
Err(e) == [tag |-> "Err", val |-> e]

\* The file the download of a game would write, and the request it would send.
GameFile(game_date) == <<"./games", game_date>>
Request(f, x) == <<"GET", f, x>>

\* The worlds a call may start in: a games directory that is empty or that
\* already holds a game; no request has been sent.
InitWorlds ==
    { [files |-> fs, requests |-> <<>>] :
        fs \in { {}, {GameFile("2024-01-15")} } }

VARIABLES
    pc,       \* pc[c]: "idle", "called" (inside a function), "returned"
    fn,       \* fn[c]: the function caller c is in
    arg,      \* arg[c]: the argument it passed
    result,   \* result[c]: the value it got back
    log,      \* the calls executed so far: <<[fn, arg, ret], ...>>
    world,    \* file system and network: [files, requests]
    first     \* first[f][x]: what f(x) returns as the first call made

vars == <<pc, fn, arg, result, log, world, first>>

----------------------------------------------------------------------------
\* The return expressions of the three functions.

\* String::from(&str): an owned copy of the literal, character for character.
String_from(lit) == lit

fetch_games_listing ==
    IF \E i \in DOMAIN log : log[i].fn = "download_game"
    THEN Str("[\"downloaded\"]")
    ELSE Str("[]")

fetch_games_empty == Str("")

\* commands.rs:6  String::from("[]")
fetch_games == Str(String_from("[]"))

download_game_checked(game_date) ==
    IF game_date = "" THEN Err("missing game date") ELSE Ok("downloaded")

\* commands.rs:12  Ok(String::from("downloaded"))
download_game(game_date) == Ok(String_from("downloaded"))

get_games_dir_bare == Str("games")

\* commands.rs:18  String::from("./games")
get_games_dir == Str(String_from("./games"))

\* The value function f returns for argument x.
Apply(f, x) ==
    CASE f = "fetch_games" -> fetch_games
      [] f = "download_game" -> download_game(x)
      [] f = "get_games_dir" -> get_games_dir

----------------------------------------------------------------------------
Init ==
    /\ pc = [c \in Callers |-> "idle"]
    /\ fn = [c \in Callers |-> "fetch_games"]
    /\ arg = [c \in Callers |-> NoArg]
    /\ result = [c \in Callers |-> NoValue]
    /\ log = <<>>
    /\ world \in InitWorlds
    /\ first = [f \in Fns |-> [x \in ArgsOf(f) |-> Apply(f, x)]]

InFlight == {c \in Callers : pc[c] = "called"}

\* Caller c enters function f with argument x.
Invoke(c) ==
    /\ pc[c] = "idle"
    /\ Len(log) + Cardinality(InFlight) < MaxCalls
    /\ \E f \in Fns : \E x \in ArgsOf(f) :
          /\ fn' = [fn EXCEPT ![c] = f]
          /\ arg' = [arg EXCEPT ![c] = x]
    /\ pc' = [pc EXCEPT ![c] = "called"]
    /\ UNCHANGED <<result, log, world, first>>

\* What a function body that returns ret does to caller c's state.
Finish(c, ret) ==
    /\ result' = [result EXCEPT ![c] = ret]
    /\ log' = Append(log, [fn |-> fn[c], arg |-> arg[c], ret |-> ret])
    /\ pc' = [pc EXCEPT ![c] = "returned"]
    /\ UNCHANGED <<fn, arg, first>>

\* The body of fetch_games run by caller c.
fetch_games_step(c) ==
    /\ pc[c] = "called"
    /\ fn[c] = "fetch_games"
    /\ Finish(c, fetch_games)
    /\ UNCHANGED world

download_game_writes(c) ==
    /\ pc[c] = "called"
    /\ fn[c] = "download_game"
    /\ Finish(c, download_game(arg[c]))
    /\ world' = [files |-> world.files \cup {GameFile(arg[c])},
                 requests |-> Append(world.requests, Request(fn[c], arg[c]))]

download_game_locked(c) ==
    /\ pc[c] = "called"
    /\ fn[c] = "download_game"
    /\ \A d \in Callers \ {c} : pc[d] # "called"
    /\ Finish(c, download_game(arg[c]))
    /\ UNCHANGED world

download_game_waits(c) ==
    /\ pc[c] = "called"
    /\ fn[c] = "download_game"
    /\ GameFile(arg[c]) \in world.files
    /\ Finish(c, download_game(arg[c]))
    /\ UNCHANGED world

\* The body of download_game run by caller c.
download_game_step(c) ==
    /\ pc[c] = "called"
    /\ fn[c] = "download_game"
    /\ Finish(c, download_game(arg[c]))
    /\ UNCHANGED world

\* The body of get_games_dir run by caller c.
get_games_dir_step(c) ==
    /\ pc[c] = "called"
    /\ fn[c] = "get_games_dir"
    /\ Finish(c, get_games_dir)
    /\ UNCHANGED world

\* The body of whichever function caller c is in.
Body(c) ==
    \/ fetch_games_step(c)
    \/ download_game_step(c)
    \/ get_games_dir_step(c)

\* Caller c takes the returned value and is free to call again.
Return(c) ==
    /\ pc[c] = "returned"
    /\ pc' = [pc EXCEPT ![c] = "idle"]
    /\ fn' = [fn EXCEPT ![c] = "fetch_games"]
    /\ arg' = [arg EXCEPT ![c] = NoArg]
    /\ result' = [result EXCEPT ![c] = NoValue]
    /\ UNCHANGED <<log, world, first>>

Next ==
    \E c \in Callers :
        \/ Invoke(c)
        \/ fetch_games_step(c)
        \/ download_game_step(c)
        \/ get_games_dir_step(c)
        \/ Return(c)

Spec == Init /\ [][Next]_vars

\* A thread that is inside a function keeps running it.
FairSpec ==
    /\ Spec
    /\ \A c \in Callers :
          /\ WF_vars(fetch_games_step(c))
          /\ WF_vars(download_game_step(c))
          /\ WF_vars(get_games_dir_step(c))

----------------------------------------------------------------------------
\* The calls that have been executed: the entries of the log.
Done == DOMAIN log

\* Caller c holds the value function f returned to it.
Holds(c, f) == pc[c] = "returned" /\ fn[c] = f

\* C1: for every input string x, the empty string included, download_game(x)
\* returns Ok("downloaded"): never an Err value, and the same value for every x.
C1_DownloadAlwaysOk ==
    /\ \A c \in Callers :
          Holds(c, "download_game") =>
              /\ result[c].tag = "Ok"
              /\ result[c].val = "downloaded"
    /\ \A i \in Done :
          log[i].fn = "download_game" =>
              /\ log[i].ret.tag # "Err"
              /\ log[i].ret = [tag |-> "Ok", val |-> "downloaded"]

\* download_game has returned for the empty string and for another string.
C1_Witness ==
    /\ \E c \in Callers : Holds(c, "download_game") /\ arg[c] = ""
    /\ \E i \in Done : log[i].fn = "download_game" /\ log[i].arg = "not-a-date"

\* C2: every call to fetch_games returns exactly the string "[]", whatever
\* calls were made before it.
C2_FetchGamesEmptyList ==
    /\ \A c \in Callers : Holds(c, "fetch_games") => result[c] = [tag |-> "String", val |-> "[]"]
    /\ \A i \in Done : log[i].fn = "fetch_games" => log[i].ret = [tag |-> "String", val |-> "[]"]

\* fetch_games has returned after a download_game and a get_games_dir.
C2_Witness ==
    \E i, j, k \in Done :
        /\ i < k /\ j < k
        /\ log[i].fn = "download_game"
        /\ log[j].fn = "get_games_dir"
        /\ log[k].fn = "fetch_games"

\* C3: every call to get_games_dir returns exactly the string "./games",
\* whatever calls were made before it.
C3_GamesDirLiteral ==
    /\ \A c \in Callers : Holds(c, "get_games_dir") => result[c] = [tag |-> "String", val |-> "./games"]
    /\ \A i \in Done : log[i].fn = "get_games_dir" => log[i].ret = [tag |-> "String", val |-> "./games"]

\* get_games_dir has returned after a download_game and a fetch_games.
C3_Witness ==
    \E i, j, k \in Done :
        /\ i < k /\ j < k
        /\ log[i].fn = "download_game"
        /\ log[j].fn = "fetch_games"
        /\ log[k].fn = "get_games_dir"

\* C4: after any sequence of calls, in any order and with any arguments, a
\* call returns what the same call returns when it is the first call made.
C4_HistoryIndependent ==
    \A i \in Done : log[i].ret = first[log[i].fn][log[i].arg]

\* A call has been repeated with a call to another function in between.
C4_Witness ==
    \E i, j, k \in Done :
        /\ i < j /\ j < k
        /\ log[i].fn = log[k].fn
        /\ log[i].arg = log[k].arg
        /\ log[j].fn # log[i].fn

\* C5: no step of any of the three functions (download_game included) changes
\* the state outside the returned value: files and requests stay as they were.
C5_NoSideEffect == [][world' = world]_vars

\* download_game has returned for a game whose file does not exist, and no
\* request has been sent.
C5_Witness ==
    /\ \E i \in Done :
          /\ log[i].fn = "download_game"
          /\ GameFile(log[i].arg) \notin world.files
    /\ \E i \in Done : log[i].fn = "fetch_games"
    /\ \E i \in Done : log[i].fn = "get_games_dir"
    /\ world.requests = <<>>

\* What a sequential call of f returns.
Sequential(f) ==
    CASE f = "fetch_games" -> [tag |-> "String", val |-> "[]"]
      [] f = "download_game" -> [tag |-> "Ok", val |-> "downloaded"]
      [] f = "get_games_dir" -> [tag |-> "String", val |-> "./games"]

\* C6: with several callers inside the functions at once, every caller gets
\* the result of a sequential call, and a caller inside a function can always
\* take its step, whatever the other callers are doing.
C6_ConcurrentCallers ==
    \A c \in Callers :
        /\ pc[c] = "called" => ENABLED Body(c)
        /\ pc[c] = "returned" => result[c] = Sequential(fn[c])

\* Two callers were inside download_game at once; one has returned while the
\* other is still inside.
C6_Witness ==
    \E c, d \in Callers :
        /\ c # d
        /\ Holds(c, "download_game")
        /\ pc[d] = "called" /\ fn[d] = "download_game"

\* C7: every call to any of the three functions, for any input string,
\* terminates and returns a value.
C7_EveryCallReturns ==
    \A c \in Callers : (pc[c] = "called") ~> (pc[c] = "returned")

\* All three functions have been called and have returned, download_game for
\* a game whose file does not exist.
C7_Witness ==
    /\ \A f \in Fns : \E i \in Done : log[i].fn = f
    /\ \E i \in Done :
          /\ log[i].fn = "download_game"
          /\ log[i].arg = ""
          /\ GameFile("") \notin world.files
    /\ \A c \in Callers : pc[c] # "called"

====
